---- MODULE Spec2Model ----
(***************************************************************************)
(* Model of ubmu/mull: the binary reader (lib/stream.py, class Stream) and *)
(* the chunk records (lib/chunk/base.py, lib/chunk/schema.py).             *)
(*                                                                         *)
(* Spec       : one Stream object, from construction through seek/read.    *)
(* SpecChunk  : one chunk dataclass instance, its stored fields and the    *)
(*              properties computed from them.                             *)
(***************************************************************************)
EXTENDS Integers, Sequences, FiniteSets, TLC

(***************************************************************************)
(* Bounds                                                                  *)
(***************************************************************************)
\* longest byte source considered
MaxSize == 4
\* furthest the cursor is allowed to travel beyond the end of the source
MaxBeyond == 2
\* largest |offset| handed to seek
MaxOffset == 3

\* byte values the sources are filled with (0x00, 0x01, 0xFF)
ByteVals == {0, 1, 255}

RECURSIVE SeqsUpTo(_, _)
SeqsUpTo(S, n) ==
    IF n = 0 THEN {<< >>}
    ELSE LET shorter == SeqsUpTo(S, n - 1)
         IN  shorter \cup {Append(s, b) : s \in {t \in shorter : Len(t) = n - 1}, b \in S}

Contents == SeqsUpTo(ByteVals, MaxSize)

(***************************************************************************)
(* State of the Stream specification                                       *)
(***************************************************************************)
VARIABLES
    source,     \* the argument handed to Stream(source): [kind, content]
    state,      \* "new" (not constructed), "open", "failed" (constructor raised)
    raised,     \* exception raised by the last call, "none" when it returned
    cursor,     \* position of the underlying file object self._stream
    _position,  \* Stream._position
    _size,      \* Stream._size
    ret,        \* what the last call did: [op, n, data, value]
    chunk,      \* the chunk dataclass instance (SpecChunk)
    origin,     \* how its fields came about: [by, alignment] (SpecChunk)
    obs         \* the last property read from it (SpecChunk)

vars == <<source, state, raised, cursor, _position, _size, ret, chunk, origin, obs>>
streamVars == <<source, state, raised, cursor, _position, _size, ret>>
chunkVars == <<chunk, origin, obs>>

(***************************************************************************)
(* Sources.  A str/Path names a regular readable file, a regular file the  *)
(* process may not read, a directory, or nothing; anything else is not a   *)
(* path: a pre-opened seekable byte source (io.BytesIO, an open file) or   *)
(* some other object.                                                      *)
(***************************************************************************)
PathKinds == {"file", "unreadable_file", "directory", "missing"}
OtherKinds == {"byte_source", "other"}
SourceKinds == PathKinds \cup OtherKinds

\* isinstance(source, (str, Path))
IsPath(src) == src.kind \in PathKinds
\* Path.exists()
PathExists(src) == src.kind \in {"file", "unreadable_file", "directory"}
\* Path.is_file()
PathIsFile(src) == src.kind \in {"file", "unreadable_file"}

\* builtin open(path, 'rb'): the exception it raises, "none" when it succeeds
BuiltinOpen(src) ==
    CASE src.kind = "file"            -> "none"
      [] src.kind = "unreadable_file" -> "PermissionError"
      [] src.kind = "directory"       -> "IsADirectoryError"
      [] OTHER                        -> "FileNotFoundError"

\* what a call that returns nothing, or raises, hands back
None == "None"

NoRet == [op |-> "none", n |-> 0, data |-> << >>, value |-> None]


(***************************************************************************)
(* The underlying binary file object (io.BufferedReader)                   *)
(***************************************************************************)
SEEK_SET == 0
SEEK_CUR == 1
SEEK_END == 2

Min(a, b) == IF a < b THEN a ELSE b

\* BufferedReader.seek(offset, whence): the absolute target.  A negative
\* target makes the call raise OSError(EINVAL) and leaves the cursor alone;
\* a target beyond the end is accepted.
FileSeekTarget(length, cur, offset, whence) ==
    CASE whence = SEEK_SET -> offset
      [] whence = SEEK_CUR -> cur + offset
      [] OTHER             -> length + offset

\* BufferedReader.read(n): the bytes from the cursor on, at most n of them
\* (all of them when n = -1); fewer than n, possibly none, at end of file.
FileRead(content, cur, n) ==
    IF n < 0 THEN SubSeq(content, cur + 1, Len(content))
    ELSE SubSeq(content, cur + 1, Min(cur + n, Len(content)))

(***************************************************************************)
(* Stream.__init__ and its helpers                                         *)
(***************************************************************************)
\* Stream._transform_source: the exception raised, "none" when a stream results
_transform_source(src) ==
    IF IsPath(src)
    THEN IF ~PathExists(src) /\ ~PathIsFile(src)
         THEN "FileNotFoundError"
         ELSE BuiltinOpen(src)
    ELSE "TypeError"

\* a _get_size that forgets to rewind the stream
_get_size_no_reset(content) ==
    LET end == FileSeekTarget(Len(content), 0, 0, SEEK_END)
    IN  [size |-> end, cursor |-> end]

\* Stream._get_size: seek(0, SEEK_END); tell(); seek(0)
_get_size(content) ==
    LET end == FileSeekTarget(Len(content), 0, 0, SEEK_END)
        back == FileSeekTarget(Len(content), end, 0, SEEK_SET)
    IN  [size |-> end, cursor |-> back]

\* Stream.__init__
Open ==
    /\ state = "new"
    /\ LET e == _transform_source(source)
       IN  IF e # "none"
           THEN /\ state' = "failed"
                /\ raised' = e
                /\ UNCHANGED <<cursor, _position, _size>>
           ELSE LET g == _get_size(source.content)
                IN  /\ state' = "open"
                    /\ raised' = "none"
                    /\ cursor' = g.cursor
                    /\ _size' = g.size
                    /\ _position' = 0
    /\ ret' = [NoRet EXCEPT !.op = "open"]
    /\ UNCHANGED <<source, chunkVars>>

\* Stream.tell
tell == _position

\* Stream.__len__
__len__ == _size

(***************************************************************************)
(* Stream.seek                                                             *)
(***************************************************************************)
\* a seek that stores the offset it was given instead of the position the
\* underlying stream reports
Seek_stores_offset(offset, whence) ==
    /\ state = "open"
    /\ LET target == FileSeekTarget(Len(source.content), cursor, offset, whence)
       IN  /\ target <= Len(source.content) + MaxBeyond
           /\ IF target < 0
              THEN /\ raised' = "OSError"
                   /\ UNCHANGED <<cursor, _position>>
              ELSE /\ raised' = "none"
                   /\ cursor' = target
                   /\ _position' = offset
    /\ ret' = [NoRet EXCEPT !.op = "seek", !.n = offset]
    /\ UNCHANGED <<source, state, _size, chunkVars>>

Seek(offset, whence) ==
    /\ state = "open"
    /\ LET target == FileSeekTarget(Len(source.content), cursor, offset, whence)
       IN  /\ target <= Len(source.content) + MaxBeyond
           /\ IF target < 0
              THEN /\ raised' = "OSError"
                   /\ UNCHANGED <<cursor, _position>>
              ELSE /\ raised' = "none"
                   /\ cursor' = target
                   /\ _position' = target
    /\ ret' = [NoRet EXCEPT !.op = "seek", !.n = offset]
    /\ UNCHANGED <<source, state, _size, chunkVars>>

(***************************************************************************)
(* Stream.read                                                             *)
(***************************************************************************)
\* a read that advances the position by the size asked for
read_advance_by_size(content, cur, pos, n) ==
    IF n < -1
    THEN [raised |-> "ValueError", data |-> << >>, cursor |-> cur, position |-> pos]
    ELSE LET _data == FileRead(content, cur, n)
         IN  [raised |-> "none", data |-> _data,
              cursor |-> cur + Len(_data), position |-> pos + n]

\* the effect of self.read(n) on a stream at (cur, pos): the exception, the
\* bytes returned and the new cursor and position
read(content, cur, pos, n) ==
    IF n < -1
    THEN [raised |-> "ValueError", data |-> << >>, cursor |-> cur, position |-> pos]
    ELSE LET _data == FileRead(content, cur, n)
         IN  [raised |-> "none", data |-> _data,
              cursor |-> cur + Len(_data), position |-> pos + Len(_data)]

Read(n) ==
    /\ state = "open"
    /\ LET r == read(source.content, cursor, _position, n)
       IN  /\ raised' = r.raised
           /\ cursor' = r.cursor
           /\ _position' = r.position
           /\ ret' = [NoRet EXCEPT !.op = "read", !.n = n, !.data = r.data]
    /\ UNCHANGED <<source, state, _size, chunkVars>>

(***************************************************************************)
(* Decoding                                                                *)
(***************************************************************************)
RECURSIVE Reverse(_)
Reverse(s) == IF s = << >> THEN << >> ELSE Append(Reverse(Tail(s)), Head(s))

\* Python integers are unbounded: a decoded integer is kept as a sign and
\* the base-256 digits of its magnitude, most significant first, without
\* leading zeros (0 is [negative |-> FALSE, magnitude |-> << >>]).
RECURSIVE StripZeros(_)
StripZeros(s) == IF s # << >> /\ Head(s) = 0 THEN StripZeros(Tail(s)) ELSE s

Invert(s) == [i \in 1..Len(s) |-> 255 - s[i]]

RECURSIVE Increment(_)
Increment(s) ==
    IF s = << >> THEN << >>
    ELSE IF s[Len(s)] = 255
         THEN Append(Increment(SubSeq(s, 1, Len(s) - 1)), 0)
         ELSE Append(SubSeq(s, 1, Len(s) - 1), s[Len(s)] + 1)

\* int.from_bytes(data, byteorder, signed): defined for every length, 0 for
\* b''; a signed value with the top bit set is negative (two's complement)
from_bytes(data, byteorder, signed) ==
    LET be == IF byteorder = "big" THEN data ELSE Reverse(data)
    IN  IF signed /\ Len(be) > 0 /\ be[1] >= 128
        THEN [negative |-> TRUE, magnitude |-> StripZeros(Increment(Invert(be)))]
        ELSE [negative |-> FALSE, magnitude |-> StripZeros(be)]

\* The fixed-width readers read_i8 .. read_f64_le: the struct format of each.
\* A float is represented by its IEEE-754 bit pattern.
Fmt(name, w, byteorder, signed) ==
    [name |-> name, w |-> w, byteorder |-> byteorder, signed |-> signed]

FixedReaders ==
    { Fmt("read_i8", 1, "big", TRUE),        Fmt("read_u8", 1, "big", FALSE),
      Fmt("read_i16_be", 2, "big", TRUE),    Fmt("read_i16_le", 2, "little", TRUE),
      Fmt("read_u16_be", 2, "big", FALSE),   Fmt("read_u16_le", 2, "little", FALSE),
      Fmt("read_i32_be", 4, "big", TRUE),    Fmt("read_i32_le", 4, "little", TRUE),
      Fmt("read_u32_be", 4, "big", FALSE),   Fmt("read_u32_le", 4, "little", FALSE),
      Fmt("read_i64_be", 8, "big", TRUE),    Fmt("read_i64_le", 8, "little", TRUE),
      Fmt("read_u64_be", 8, "big", FALSE),   Fmt("read_u64_le", 8, "little", FALSE),
      Fmt("read_f32_be", 4, "big", FALSE),   Fmt("read_f32_le", 4, "little", FALSE),
      Fmt("read_f64_be", 8, "big", FALSE),   Fmt("read_f64_le", 8, "little", FALSE) }

\* struct.unpack(fmt, data)[0]: raises struct.error unless len(data) is the
\* size of the format
unpack(fmt, data) ==
    IF Len(data) # fmt.w
    THEN [raised |-> "struct.error", value |-> None]
    ELSE [raised |-> "none", value |-> from_bytes(data, fmt.byteorder, fmt.signed)]

GuidWidth == 16

\* uuid.UUID(bytes_le=raw_bytes): raises ValueError unless 16 bytes are given
UUID(raw_bytes) ==
    IF Len(raw_bytes) # GuidWidth
    THEN [raised |-> "ValueError", value |-> None]
    ELSE [raised |-> "none",
          value |-> from_bytes(Reverse(SubSeq(raw_bytes, 1, 4))
                               \o Reverse(SubSeq(raw_bytes, 5, 6))
                               \o Reverse(SubSeq(raw_bytes, 7, 8))
                               \o SubSeq(raw_bytes, 9, 16), "big", FALSE)]

Encodings == {"ascii", "latin-1"}

\* bytes.decode(encoding): one code point per byte; ascii rejects bytes > 127
decode(raw_bytes, encoding) ==
    IF encoding = "ascii" /\ \E i \in 1..Len(raw_bytes) : raw_bytes[i] > 127
    THEN [raised |-> "UnicodeDecodeError", value |-> None]
    ELSE [raised |-> "none", value |-> raw_bytes]

\* str.rstrip("\x00")
RECURSIVE rstrip(_)
rstrip(str) ==
    IF str # << >> /\ str[Len(str)] = 0
    THEN rstrip(SubSeq(str, 1, Len(str) - 1))
    ELSE str

(***************************************************************************)
(* The typed readers.  Each calls self.read(w) once; the position has      *)
(* already moved when the decoding of the bytes raises.                    *)
(***************************************************************************)
\* a typed reader that applies `decoded` to the bytes self.read(n) returned
TypedRead(op, n, r, decoded) ==
    /\ raised' = IF r.raised # "none" THEN r.raised ELSE decoded.raised
    /\ cursor' = r.cursor
    /\ _position' = r.position
    /\ ret' = [op |-> op, n |-> n, data |-> r.data,
               value |-> IF r.raised # "none" THEN None ELSE decoded.value]
    /\ UNCHANGED <<source, state, _size, chunkVars>>

\* Stream.read_i8 .. Stream.read_f64_le
ReadFixed(fmt) ==
    /\ state = "open"
    /\ LET r == read(source.content, cursor, _position, fmt.w)
       IN  TypedRead(fmt.name, fmt.w, r, unpack(fmt, r.data))

\* the value read_integer returns for the bytes read
integer_value(_data, endian, signed) ==
    [raised |-> "none", value |-> from_bytes(_data, endian, signed)]

\* Stream.read_integer
ReadInteger(size, endian, signed) ==
    /\ state = "open"
    /\ LET r == read(source.content, cursor, _position, size)
       IN  TypedRead("read_integer", size, r, integer_value(r.data, endian, signed))

\* Stream.read_guid_le
ReadGuidLe ==
    /\ state = "open"
    /\ LET r == read(source.content, cursor, _position, GuidWidth)
       IN  TypedRead("read_guid_le", GuidWidth, r, UUID(r.data))

\* the value read_string returns for the bytes read
string_value(raw_bytes, encoding, strip) ==
    LET s == decode(raw_bytes, encoding)
    IN  IF s.raised = "none" /\ strip
        THEN [raised |-> "none", value |-> rstrip(s.value)]
        ELSE s

\* Stream.read_string
ReadString(size, encoding, strip) ==
    /\ state = "open"
    /\ LET r == read(source.content, cursor, _position, size)
       IN  TypedRead("read_string", size, r, string_value(r.data, encoding, strip))

(***************************************************************************)
(* The Stream specification                                                *)
(***************************************************************************)
\* sizes handed to read, read_integer and read_string
ReadSizes == -2 .. MaxSize + 1
Offsets == -MaxOffset .. MaxOffset
Whences == {SEEK_SET, SEEK_CUR, SEEK_END}

NoChunk == [class |-> "none"]
NoOrigin == [by |-> "none", alignment |-> 0]
NoObs == [property |-> "none", value |-> None]

Init ==
    /\ source \in [kind : SourceKinds, content : Contents]
    /\ state = "new"
    /\ raised = "none"
    /\ cursor = 0
    /\ _position = 0
    /\ _size = 0
    /\ ret = NoRet
    /\ chunk = NoChunk
    /\ origin = NoOrigin
    /\ obs = NoObs

Next ==
    \/ Open
    \/ \E offset \in Offsets, whence \in Whences : Seek(offset, whence)
    \/ \E n \in ReadSizes : Read(n)
    \/ \E fmt \in FixedReaders : ReadFixed(fmt)
    \/ \E size \in ReadSizes, endian \in {"big", "little"}, signed \in BOOLEAN :
          ReadInteger(size, endian, signed)
    \/ ReadGuidLe
    \/ \E size \in ReadSizes, encoding \in Encodings, strip \in BOOLEAN :
          ReadString(size, encoding, strip)

Spec == Init /\ [][Next]_vars

(***************************************************************************)
(* Properties of the Stream                                                *)
(***************************************************************************)
\* the exceptions of the code that play the part of the documented error kinds
SourceNotFound == "FileNotFoundError"
UnsupportedSource == "TypeError"
\* no exception of stream.py reports a short read
TruncatedRead == "TruncatedRead"

\* bytes between the cursor and the end of the source
Remaining == Len(source.content) - cursor

TypedReaders ==
    {fmt.name : fmt \in FixedReaders} \cup {"read_integer", "read_guid_le", "read_string"}

\* C1: read(n) with n > 0 either returns exactly n bytes and advances the
\* position by n or, when fewer than n bytes remain, fails with TruncatedRead;
\* it never returns fewer than n bytes.
C1_ReadExactOrTruncated ==
    [][ (state = "open" /\ ret'.op = "read" /\ ret'.n > 0) =>
            IF Remaining >= ret'.n
            THEN /\ raised' = "none"
                 /\ Len(ret'.data) = ret'.n
                 /\ tell' = tell + ret'.n
            ELSE raised' = TruncatedRead ]_vars

\* C2 (as stated): 0 <= tell() <= len(stream) in every state of an open
\* stream, also after a seek whose target lies beyond the end.
C2_PositionWithinSize ==
    state = "open" => 0 <= tell /\ tell <= __len__

\* C2 (amended): tell() is never negative, and tell() <= len(stream) holds
\* after open and is only ever broken by a successful seek whose target lies
\* beyond the end of the source; no read moves the position past the end.
C2_PositionBeyondOnlyBySeek ==
    [][ state' = "open" =>
            /\ 0 <= tell'
            /\ tell' > __len__' =>
                   \/ state = "open" /\ tell > __len__ /\ tell' = tell
                   \/ ret'.op = "seek" /\ raised' = "none" ]_vars

C2_Witness ==
    state = "open" /\ ret.op = "seek" /\ raised = "none" /\ tell > __len__

\* C5: at open time a readable file or a pre-opened seekable byte source
\* yields a reader, any other path fails with SourceNotFound, any other
\* input fails with UnsupportedSource, and nothing else happens.
C5_OpenClassification ==
    state # "new" =>
        CASE source.kind \in {"file", "byte_source"} ->
                 state = "open" /\ raised = "none"
          [] source.kind \in {"unreadable_file", "directory", "missing"} ->
                 state = "failed" /\ raised = SourceNotFound
          [] OTHER ->
                 state = "failed" /\ raised = UnsupportedSource

\* C6: right after open tell() = 0, the underlying cursor is at 0 and
\* len(stream) is the byte length of the source; no later seek or read
\* changes the cached size.
C6_OpenedAtZeroWithSize ==
    state = "open" =>
        /\ __len__ = Len(source.content)
        /\ ret.op = "open" => tell = 0 /\ cursor = 0

C6_Witness ==
    state = "open" /\ ret.op = "open" /\ __len__ > 0

\* C7: a typed reader of width w advances the position by exactly w when at
\* least w bytes remain, and fails when fewer than w bytes remain instead of
\* returning a value decoded from a short read.
C7_TypedReadersFailOnShortRead ==
    [][ (state = "open" /\ ret'.op \in TypedReaders /\ ret'.n >= 0) =>
            IF Remaining >= ret'.n
            THEN tell' = tell + ret'.n
            ELSE raised' # "none" ]_vars

\* C12: after any sequence of seek and read calls, also read(-1) and reads
\* that hit the end of the source, tell() is the cursor position of the
\* underlying byte source.
C12_TellIsCursor ==
    state = "open" => tell = cursor

C12_Witness ==
    /\ state = "open"
    /\ ret.op = "read"
    /\ ret.n = -1
    /\ Len(ret.data) > 0
    /\ Len(ret.data) < __len__
    /\ tell = __len__

(***************************************************************************)
(* Chunk records (lib/chunk/base.py, lib/chunk/schema.py).  The dataclasses *)
(* are not frozen: every stored field can be reassigned.  Of each class    *)
(* the model keeps the fields its properties read.                         *)
(***************************************************************************)
\* largest value given to an integer field of a RawChunk
MaxField == 3
\* largest alignment unit of a container
MaxAlign == 3

\* RawChunk.end_offset from the reported size
end_offset_reported(c) == c.payload_offset + c.reported_payload_size + c.padding_size

\* RawChunk.end_offset without the padding
end_offset_no_padding(c) == c.payload_offset + c.actual_payload_size

\* RawChunk.end_offset
end_offset(c) == c.payload_offset + c.actual_payload_size + c.padding_size

\* RawChunk.size_mismatch
size_mismatch(c) == c.reported_payload_size = c.actual_payload_size

\* RawChunk.hidden_data
hidden_data(c) == c.actual_payload_size > c.reported_payload_size

\* common.PVOC_WINDOW_TYPE
HAMMING == 1
HANNING == 2
KAISER == 3
RECT == 4
CUSTOM == 5
PVOC_WINDOW_TYPE == {HAMMING, HANNING, KAISER, RECT, CUSTOM}

\* common.PVOC_KAISER_DEFAULT_BETA = 6.8; floats are counted in tenths
PVOC_KAISER_DEFAULT_BETA == 68

\* window_parameter values: 0.0, 2.5, 6.8, 10.0
WindowParameters == {0, 25, 68, 100}

\* PVOCFormatChunk.beta
beta(c) ==
    IF c.window_type = KAISER /\ c.window_parameter = 0
    THEN PVOC_KAISER_DEFAULT_BETA
    ELSE 0

\* FormatChunk.valid
FormatChunk_valid(c) == c.payload_size = 14

\* math.ceil(bits_per_sample / 8)
CeilBytes(bits_per_sample) == (bits_per_sample + 7) \div 8

\* the body of PCMFormatChunk.valid(self, recommended)
PCMFormatChunk_valid(c, recommended) ==
    IF c.format_tag # 1 THEN FALSE
    ELSE IF c.payload_size # 16 THEN FALSE
    ELSE IF c.bits_per_sample \notin {8, 16} THEN FALSE
    ELSE IF recommended /\ c.byte_rate # c.sample_rate * c.block_align THEN FALSE
    ELSE IF c.block_align # c.channel_count * CeilBytes(c.bits_per_sample) THEN FALSE
    ELSE TRUE

\* a valid property whose getter runs with recommended enabled
valid_recommended(c) ==
    IF c.class = "PCMFormatChunk"
    THEN PCMFormatChunk_valid(c, TRUE)
    ELSE FormatChunk_valid(c)

\* chunk.valid: a property getter is called with self alone, so recommended
\* keeps its default False; a FormatChunk instance runs FormatChunk.valid
valid(c) ==
    IF c.class = "PCMFormatChunk"
    THEN PCMFormatChunk_valid(c, FALSE)
    ELSE FormatChunk_valid(c)

\* field values of the format chunks: sizes of WAVEFORMAT, PCMWAVEFORMAT and
\* WAVEFORMATEX; PCM and ADPCM tags; mono and stereo
PayloadSizes == {14, 16, 18}
FormatTags == {1, 2}
ChannelCounts == {1, 2}
SampleRates == {1, 2}
ByteRates == {1, 2, 4}
BlockAligns == {1, 2, 3, 4}
BitsPerSample == {8, 12, 16, 24}

FormatChunks ==
    [class : {"FormatChunk"},
     payload_size : PayloadSizes,
     format_tag : FormatTags,
     channel_count : ChannelCounts,
     sample_rate : SampleRates,
     byte_rate : ByteRates,
     block_align : BlockAligns]

PCMFormatChunks ==
    [class : {"PCMFormatChunk"},
     payload_size : PayloadSizes,
     format_tag : FormatTags,
     channel_count : ChannelCounts,
     sample_rate : SampleRates,
     byte_rate : ByteRates,
     block_align : BlockAligns,
     bits_per_sample : BitsPerSample]

RawChunks ==
    [class : {"RawChunk"},
     reported_payload_size : 0..MaxField,
     actual_payload_size : 0..MaxField,
     start_offset : 0..MaxField,
     payload_offset : 0..MaxField,
     padding_size : 0..MaxField,
     is_aligned : BOOLEAN]

PVOCFormatChunks ==
    [class : {"PVOCFormatChunk"},
     window_type : PVOC_WINDOW_TYPE,
     window_parameter : WindowParameters]

\* the values a field of the record can be given
FieldValues(c, f) ==
    CASE f = "class"            -> {c.class}
      [] f = "is_aligned"       -> BOOLEAN
      [] f = "window_type"      -> PVOC_WINDOW_TYPE
      [] f = "window_parameter" -> WindowParameters
      [] f = "payload_size"     -> PayloadSizes
      [] f = "format_tag"       -> FormatTags
      [] f = "channel_count"    -> ChannelCounts
      [] f = "sample_rate"      -> SampleRates
      [] f = "byte_rate"        -> ByteRates
      [] f = "block_align"      -> BlockAligns
      [] f = "bits_per_sample"  -> BitsPerSample
      [] OTHER                  -> 0..MaxField

\* RawChunk(...), PVOCFormatChunk(...), ...: the generated __init__ stores its
\* arguments as given.  One instance is followed from its construction on.
New(c) ==
    /\ chunk = NoChunk
    /\ chunk' = c
    /\ origin' = [by |-> "constructor", alignment |-> 0]
    /\ obs' = NoObs
    /\ UNCHANGED streamVars

\* chunk.f = v
SetField(f, v) ==
    /\ chunk # NoChunk
    /\ f \in DOMAIN chunk
    /\ v \in FieldValues(chunk, f)
    /\ chunk' = [chunk EXCEPT ![f] = v]
    /\ origin' = [by |-> "reassigned", alignment |-> 0]
    /\ obs' = NoObs
    /\ UNCHANGED streamVars

\* reading a property of the instance
Get(property, value) ==
    /\ obs' = [property |-> property, value |-> value]
    /\ UNCHANGED <<chunk, origin, streamVars>>

GetEndOffset ==
    chunk.class = "RawChunk" /\ Get("end_offset", end_offset(chunk))

GetSizeMismatch ==
    chunk.class = "RawChunk" /\ Get("size_mismatch", size_mismatch(chunk))

GetHiddenData ==
    chunk.class = "RawChunk" /\ Get("hidden_data", hidden_data(chunk))

GetBeta ==
    chunk.class = "PVOCFormatChunk" /\ Get("beta", beta(chunk))

GetValid ==
    chunk.class \in {"FormatChunk", "PCMFormatChunk"} /\ Get("valid", valid(chunk))

(***************************************************************************)
(* The chunk walker is not among the sources; what it stores in a RawChunk *)
(* is taken from the design document (sections 3 and 4.2).                 *)
(***************************************************************************)
\* identifier (4 bytes) and size field (4 bytes) of a RIFF chunk header
HeaderWidth == 8

\* (alignment - (actual_payload_size mod alignment)) mod alignment
Padding(alignment, actual_payload_size) ==
    (alignment - (actual_payload_size % alignment)) % alignment

\* the walker emits the RawChunk of a header found at start_offset
Emit(alignment, start_offset, reported, actual) ==
    /\ chunk = NoChunk
    /\ chunk' = [class |-> "RawChunk",
                 reported_payload_size |-> reported,
                 actual_payload_size |-> actual,
                 start_offset |-> start_offset,
                 payload_offset |-> start_offset + HeaderWidth,
                 padding_size |-> Padding(alignment, actual),
                 is_aligned |-> (start_offset + HeaderWidth) % alignment = 0]
    /\ origin' = [by |-> "walker", alignment |-> alignment]
    /\ obs' = NoObs
    /\ UNCHANGED streamVars

(***************************************************************************)
(* The chunk specification                                                 *)
(***************************************************************************)
FieldNames ==
    {"reported_payload_size", "actual_payload_size", "start_offset", "payload_offset",
     "padding_size", "is_aligned", "window_type", "window_parameter",
     "payload_size", "format_tag", "channel_count", "sample_rate", "byte_rate",
     "block_align", "bits_per_sample"}

InitChunk ==
    /\ source = [kind |-> "missing", content |-> << >>]
    /\ state = "new"
    /\ raised = "none"
    /\ cursor = 0
    /\ _position = 0
    /\ _size = 0
    /\ ret = NoRet
    /\ chunk = NoChunk
    /\ origin = NoOrigin
    /\ obs = NoObs

NextChunk ==
    \/ \E c \in RawChunks \cup PVOCFormatChunks \cup FormatChunks \cup PCMFormatChunks : New(c)
    \/ \E alignment \in 1..MaxAlign, start_offset \in 0..MaxField,
          reported \in 0..MaxField, actual \in 0..MaxField :
          Emit(alignment, start_offset, reported, actual)
    \/ \E f \in FieldNames : \E v \in FieldValues(chunk, f) : SetField(f, v)
    \/ GetEndOffset
    \/ GetSizeMismatch
    \/ GetHiddenData
    \/ GetBeta
    \/ GetValid

SpecChunk == InitChunk /\ [][NextChunk]_vars

(***************************************************************************)
(* Properties of the chunk records                                         *)
(***************************************************************************)
\* C3: size_mismatch is true if and only if reported_payload_size differs
\* from actual_payload_size.
C3_SizeMismatchIffDiffer ==
    obs.property = "size_mismatch" =>
        (obs.value <=> chunk.reported_payload_size # chunk.actual_payload_size)

\* C4: hidden_data is true if and only if actual_payload_size exceeds
\* reported_payload_size, and then size_mismatch is true of the same record.
C4_HiddenDataImpliesMismatch ==
    obs.property = "hidden_data" =>
        /\ obs.value <=> chunk.actual_payload_size > chunk.reported_payload_size
        /\ obs.value => size_mismatch(chunk)

\* C8: in every state, also after stored fields were reassigned, end_offset
\* is payload_offset + actual_payload_size + padding_size.
C8_EndOffsetFromFields ==
    obs.property = "end_offset" =>
        obs.value = chunk.payload_offset + chunk.actual_payload_size + chunk.padding_size

C8_Witness ==
    /\ obs.property = "end_offset"
    /\ origin.by = "reassigned"
    /\ chunk.padding_size > 0
    /\ chunk.actual_payload_size # chunk.reported_payload_size

\* C9 (as stated): with padding_size computed from the alignment unit a,
\* padding_size is in [0, a-1] and end_offset is a multiple of a for every
\* payload_offset, aligned or not.
C9_EndOffsetAlwaysAligned ==
    (origin.by = "walker" /\ obs.property = "end_offset") =>
        /\ chunk.padding_size \in 0..(origin.alignment - 1)
        /\ obs.value % origin.alignment = 0

\* C9 (amended): padding_size is in [0, a-1], actual_payload_size +
\* padding_size is a multiple of a, and end_offset is a multiple of a exactly
\* when payload_offset is one (is_aligned is true).
C9_EndOffsetAlignedIffPayloadAligned ==
    (origin.by = "walker" /\ obs.property = "end_offset") =>
        /\ chunk.padding_size \in 0..(origin.alignment - 1)
        /\ (chunk.actual_payload_size + chunk.padding_size) % origin.alignment = 0
        /\ obs.value % origin.alignment = 0 <=> chunk.is_aligned

C9_Witness ==
    /\ origin.by = "walker"
    /\ obs.property = "end_offset"
    /\ ~chunk.is_aligned
    /\ chunk.padding_size > 0

\* C10: beta of a KAISER window is window_parameter when that is non-zero and
\* the default 6.8 when it is 0.0; beta of every other window type is 0.0.
C10_BetaOfKaiser ==
    obs.property = "beta" =>
        obs.value = IF chunk.window_type = KAISER
                    THEN IF chunk.window_parameter # 0
                         THEN chunk.window_parameter
                         ELSE PVOC_KAISER_DEFAULT_BETA
                    ELSE 0

\* C11: PCMFormatChunk.valid is true if and only if format_tag = 1,
\* payload_size = 16, bits_per_sample is 8 or 16 and block_align =
\* channel_count * ceil(bits_per_sample / 8); byte_rate has no influence, and
\* no record satisfies both PCMFormatChunk.valid and the FormatChunk rule
\* payload_size = 14.
C11_PCMValidIffFourChecks ==
    (chunk.class = "PCMFormatChunk" /\ obs.property = "valid") =>
        /\ obs.value <=>
               /\ chunk.format_tag = 1
               /\ chunk.payload_size = 16
               /\ chunk.bits_per_sample \in {8, 16}
               /\ chunk.block_align = chunk.channel_count * CeilBytes(chunk.bits_per_sample)
        /\ ~(obs.value /\ FormatChunk_valid(chunk))

C11_Witness ==
    /\ chunk.class = "PCMFormatChunk"
    /\ obs.property = "valid"
    /\ obs.value = TRUE
    /\ chunk.byte_rate # chunk.sample_rate * chunk.block_align

====
